---- MODULE Spec2Model ----
(***************************************************************************)
(* Model of the compute kernels of img_blur_fusion.metal.                  *)
(*                                                                         *)
(* One dispatch of one kernel is a state machine: the grid's units run in  *)
(* any order, each unit's body being one step (Transpose has two steps per *)
(* unit, separated by the tile barrier; GaussianBlur has one step per      *)
(* pass).  Buffers are functions from a byte (or word) index to a value.   *)
(*                                                                         *)
(* Ghost state records what the units did to memory:                       *)
(*   wcnt   how many times each output element was stored to               *)
(*   oob    the accesses that fell outside the plane they address, each    *)
(*          with whether the unit's index was inside the image             *)
(*   stray  the accesses made by units whose index is outside the image    *)
(***************************************************************************)
EXTENDS Integers, Sequences, FiniteSets, TLC

VARIABLES kernel, cfg, mem, pc, wcnt, oob, stray

vars == <<kernel, cfg, mem, pc, wcnt, oob, stray>>

(***************************************************************************)
(* Bounds of the model.                                                    *)
(***************************************************************************)
\* Transpose: most units in one grid, and the largest tile edge.
TransposeMaxUnits == 8
MaxLocalSize == 2

\* Padding: the tight buffer has up to PadMaxQuads * 4 columns and
\* PadMaxRows rows; the padded one up to PadMaxExtraW more columns and
\* PadMaxExtraH more rows.
PadMaxQuads == 2
PadMaxRows == 3
PadMaxExtraW == 2
PadMaxExtraH == 2

\* Format conversion: most units in one grid (the image plus the slack).
FormatMaxUnits == 10

\* GaussianBlur: most columns in one grid (the image plus the slack), and
\* most rows.
BlurMaxUnits == 4
BlurMaxRows == 4

\* Fusion: most units in one grid (the image plus the slack).
FusionMaxUnits == 4

\* Units the host may dispatch beyond the image, per axis.
GridSlack == 1

\* ResizeBillinear: grid and source sizes are capped by their number of
\* elements, row strides exceed the width by at most ResizeMaxPad.
ResizeMaxUnits == 4

ResizeMaxPad == 1

\* Content of an output element nothing has stored to yet.
Unwritten == 0 - 1

\* Values a read of memory nobody initialised may return.
Indeterminate == {0, 255}

\* Input images: element i holds (seed + 37 * i) mod 256, so neighbouring
\* elements differ and a misplaced element shows.
Seeds == {3, 200}

Image(seed, n) == [i \in 0 .. n - 1 |-> (seed + 37 * i) % 256]

Blank(n) == [i \in 0 .. n - 1 |-> Unwritten]

Zeros(n) == [i \in 0 .. n - 1 |-> 0]

CeilDiv(a, b) == (a + b - 1) \div b

\* OpenCL-style 24-bit multiply-add; the operands of the model stay far
\* below 2^23, where it is a * b + c.
mad24(a, b, c) == a * b + c

mul24(a, b) == a * b

\* One more store to element i of output buffer buf (saturating at 2).
Bump(w, buf, i) ==
    [w EXCEPT ![buf] = [@ EXCEPT ![i] = IF @ >= 2 THEN 2 ELSE @ + 1]]

(***************************************************************************)
(* Transpose                                                               *)
(*   cfg  = [width, height, localSize, groups = <<gx count, gy count>>]    *)
(*   mem  = [idata, odata, block]; block[g] is the staging buffer of the   *)
(*          tile (thread group) g, (localSize + 1) * localSize bytes: the  *)
(*          shared memory array of the comment at line 33, which the       *)
(*          barrier of line 103 orders (the parameter list declares it in  *)
(*          the thread address space)                                      *)
(*          localSize is the edge of the square thread group               *)
(*   unit = <<gx, gy, lx, ly>>: group id and local id                      *)
(*   pc   = "load" -> "barrier" -> "done"                                  *)
(***************************************************************************)
TransposeUnits(groups, L) ==
    (0 .. groups[1] - 1) \X (0 .. groups[2] - 1) \X (0 .. L - 1) \X (0 .. L - 1)

\* thread_position_in_grid of a unit
TransposeIndexX(u, L) == u[1] * L + u[3]

TransposeIndexY(u, L) == u[2] * L + u[4]

\* line 94: the load guard
TransposeLoadGuard(xIndex, yIndex, width, height) ==
    (xIndex < width) /\ (yIndex < height)

\* line 96
TransposeIndexInp(xIndex, yIndex, width) == mad24(yIndex, width, xIndex)

\* line 97: the cell of the staging buffer a unit loads into
TransposeLoadBlk(lx, ly, L) == ly * (L + 1) + lx

\* lines 106-107: the transposed coordinates of the store phase
TransposeStoreX(u, L) == mul24(u[2], L) + u[3]

TransposeStoreY(u, L) == mul24(u[1], L) + u[4]

\* line 109: the store guard
TransposeStoreGuard(xIndex, yIndex, width, height) ==
    (xIndex < height) /\ (yIndex < width)

\* A store phase that reads back the cell the unit itself loaded.
TransposeStoreBlkOwnCell(lx, ly, L) == ly * (L + 1) + lx

\* line 111: the cell of the staging buffer a unit stores from
TransposeStoreBlk(lx, ly, L) == lx * (L + 1) + ly

\* line 112
TransposeIndexOut(xIndex, yIndex, height) == mad24(yIndex, height, xIndex)

TransposeInit ==
    \E width \in 1 .. TransposeMaxUnits, height \in 1 .. TransposeMaxUnits,
       L \in 1 .. MaxLocalSize, seed \in Seeds :
        LET groups == <<CeilDiv(width, L), CeilDiv(height, L)>> IN
        /\ groups[1] * groups[2] * L * L <= TransposeMaxUnits
        /\ kernel = "Transpose"
        /\ cfg = [width |-> width, height |-> height, localSize |-> L,
                  groups |-> groups]
        /\ mem = [idata |-> Image(seed, width * height),
                  odata |-> Blank(width * height),
                  block |-> [g \in (0 .. groups[1] - 1) \X (0 .. groups[2] - 1) |->
                                Blank((L + 1) * L)]]
        /\ pc = [u \in TransposeUnits(groups, L) |-> "load"]
        /\ wcnt = [odata |-> Zeros(width * height)]
        /\ oob = {}
        /\ stray = {}

\* lines 85-100: the load phase of one unit, up to the barrier
TransposeLoad(u) ==
    LET L == cfg.localSize
        xIndex == TransposeIndexX(u, L)
        yIndex == TransposeIndexY(u, L)
        index_inp == TransposeIndexInp(xIndex, yIndex, cfg.width)
        index_blk == TransposeLoadBlk(u[3], u[4], L)
        g == <<u[1], u[2]>>
    IN  /\ kernel = "Transpose"
        /\ pc[u] = "load"
        /\ pc' = [pc EXCEPT ![u] = "barrier"]
        /\ IF TransposeLoadGuard(xIndex, yIndex, cfg.width, cfg.height)
           THEN /\ mem' = [mem EXCEPT !.block[g][index_blk] = mem.idata[index_inp]]
                /\ oob' = oob \cup
                      (IF index_inp \in DOMAIN mem.idata
                       THEN {} ELSE {<<"idata", index_inp, TRUE>>})
                      \cup (IF index_blk \in DOMAIN mem.block[g]
                            THEN {} ELSE {<<"block", index_blk, TRUE>>})
           ELSE UNCHANGED <<mem, oob>>
        /\ UNCHANGED <<kernel, cfg, wcnt, stray>>

\* The units of the thread group (tile) of unit u.
TransposeTile(u) == {v \in DOMAIN pc : v[1] = u[1] /\ v[2] = u[2]}

\* A kernel whose units run on from the load phase without waiting.
TransposeBarrierAbsent(u) == TRUE

\* line 103: threadgroup_barrier; a unit leaves it once every unit of its
\* thread group has arrived, that is, has finished the load phase
TransposeBarrier(u) == \A v \in TransposeTile(u) : pc[v] # "load"

\* lines 103-114: the store phase of one unit; the barrier lets it start
\* once every unit of its thread group has finished the load phase
TransposeStore(u) ==
    LET L == cfg.localSize
        xIndex == TransposeStoreX(u, L)
        yIndex == TransposeStoreY(u, L)
        index_blk == TransposeStoreBlk(u[3], u[4], L)
        index_out == TransposeIndexOut(xIndex, yIndex, cfg.height)
        g == <<u[1], u[2]>>
        inImage == TransposeLoadGuard(TransposeIndexX(u, L), TransposeIndexY(u, L),
                                      cfg.width, cfg.height)
    IN  /\ kernel = "Transpose"
        /\ pc[u] = "barrier"
        /\ TransposeBarrier(u)
        /\ pc' = [pc EXCEPT ![u] = "done"]
        /\ IF TransposeStoreGuard(xIndex, yIndex, cfg.width, cfg.height)
           THEN /\ \E val \in (IF mem.block[g][index_blk] = Unwritten
                               THEN Indeterminate ELSE {mem.block[g][index_blk]}) :
                       mem' = [mem EXCEPT !.odata[index_out] = val]
                /\ wcnt' = Bump(wcnt, "odata", index_out)
                /\ oob' = oob \cup
                      (IF index_out \in DOMAIN mem.odata
                       THEN {} ELSE {<<"odata", index_out, inImage>>})
                /\ stray' = IF inImage THEN stray ELSE stray \cup {<<u, "odata", index_out>>}
           ELSE UNCHANGED <<mem, wcnt, oob, stray>>
        /\ UNCHANGED <<kernel, cfg>>

TransposeNext ==
    \/ \E u \in DOMAIN pc : TransposeLoad(u)
    \/ \E u \in DOMAIN pc : TransposeStore(u)

SpecTranspose == TransposeInit /\ [][TransposeNext]_vars

AllDone == \A u \in DOMAIN pc : pc[u] = "done"

(***************************************************************************)
(* Units without a barrier: the body of a unit is one step.  Its effect is *)
(* a record                                                                *)
(*   reads  : the set of <<buffer, index, lo, hi>> it loads                *)
(*   writes : the sequence of <<buffer, index, value, lo, hi>> it stores   *)
(* where lo .. hi - 1 is the extent of the plane the access addresses.     *)
(***************************************************************************)
NoEffect == [reads |-> {}, writes |-> <<>>]

\* C integer division and shift of the kernels (operands may be negative
\* only in the padding arithmetic, where C truncates toward zero).
CDiv(a, b) == IF a >= 0 THEN a \div b ELSE -((-a) \div b)

Shr2(a) == a \div 4

BufLen(f) == Cardinality(DOMAIN f)

\* The byte a load returns: an element outside the buffer, or one nobody
\* has initialised, yields the indeterminate value ind.
Load(m, buf, i, ind) ==
    IF i \in DOMAIN m[buf] /\ m[buf][i] # Unwritten THEN m[buf][i] ELSE ind

RECURSIVE ApplyWrites(_, _)
ApplyWrites(m, ws) ==
    IF ws = <<>> THEN m
    ELSE LET w == Head(ws) IN
         ApplyWrites(IF w[2] \in DOMAIN m[w[1]]
                     THEN [m EXCEPT ![w[1]] = [@ EXCEPT ![w[2]] = w[3]]]
                     ELSE m,
                     Tail(ws))

RECURSIVE CountWrites(_, _)
CountWrites(c, ws) ==
    IF ws = <<>> THEN c
    ELSE LET w == Head(ws) IN
         CountWrites(IF w[2] \in DOMAIN c[w[1]] THEN Bump(c, w[1], w[2]) ELSE c,
                     Tail(ws))

OutOfExtent(eff) ==
    {<<r[1], r[2]>> : r \in {q \in eff.reads : q[2] < q[3] \/ q[2] >= q[4]}}
    \cup {<<eff.writes[k][1], eff.writes[k][2]>> :
              k \in {j \in DOMAIN eff.writes :
                        eff.writes[j][2] < eff.writes[j][4]
                        \/ eff.writes[j][2] >= eff.writes[j][5]}}

Touched(eff) ==
    {<<r[1], r[2]>> : r \in eff.reads}
    \cup {<<eff.writes[k][1], eff.writes[k][2]>> : k \in DOMAIN eff.writes}

\* Unit u goes from position from to position to with effect eff; inImage
\* tells whether its invocation index lies inside the image the kernel
\* processes, counted whether its stores count as stores to the output.
CommitStep(u, inImage, eff, from, to, counted) ==
    /\ pc[u] = from
    /\ pc' = [pc EXCEPT ![u] = to]
    /\ mem' = ApplyWrites(mem, eff.writes)
    /\ wcnt' = IF counted THEN CountWrites(wcnt, eff.writes) ELSE wcnt
    /\ oob' = oob \cup {<<a[1], a[2], inImage>> : a \in OutOfExtent(eff)}
    /\ stray' = IF inImage THEN stray
                ELSE stray \cup {<<u, a[1], a[2]>> : a \in Touched(eff)}
    /\ UNCHANGED <<kernel, cfg>>

\* Unit u runs to completion with effect eff.
Commit(u, inImage, eff) == CommitStep(u, inImage, eff, "ready", "done", TRUE)

(***************************************************************************)
(* NV12_Add_Padding and NV12_Remove_Padding: one unit per row.             *)
(*   cfg = [width, height, owidth, oheight, grid] as the running kernel    *)
(*         receives them                                                   *)
(*   mem = [src, pad, dst]: the tight input, the padded buffer that        *)
(*         NV12_Add_Padding fills and NV12_Remove_Padding reads, and the   *)
(*         tight result                                                    *)
(***************************************************************************)
\* lines 624-627, 671-674: the stores of the uchar4 copy loop
\*   for (i = index_dst>>2; i < (index_dst + n)>>2; i++)
\*       dst_4[i] = vload4((index_src>>2) + i - (index_dst>>2), src)
\* as a sequence of byte stores, with the loads it makes.
CopyFirst(index_dst) == Shr2(index_dst)

CopyLast(index_dst, n) == Shr2(index_dst + n)

CopySrcChunk(index_src, index_dst, i) == Shr2(index_src) + i - Shr2(index_dst)

CopyEffect(m, from, to, index_src, index_dst, n, ind) ==
    LET a == CopyFirst(index_dst)
        b == CopyLast(index_dst, n)
        cnt == IF b > a THEN 4 * (b - a) ELSE 0
        sIdx(k) == 4 * CopySrcChunk(index_src, index_dst, a + (k \div 4)) + (k % 4)
        dIdx(k) == 4 * (a + (k \div 4)) + (k % 4)
    IN  [reads |-> {<<from, sIdx(k), 0, BufLen(m[from])>> : k \in 0 .. cnt - 1},
         writes |-> [k \in 1 .. cnt |->
                       <<to, dIdx(k - 1), Load(m, from, sIdx(k - 1), ind),
                         0, BufLen(m[to])>>]]

\* lines 655-658, 678-681: the zero-filling loop from byte offset lo to hi
ZeroEffect(m, to, lo, hi) ==
    LET a == Shr2(lo)
        b == Shr2(hi)
        cnt == IF b > a THEN 4 * (b - a) ELSE 0
    IN  [reads |-> {},
         writes |-> [k \in 1 .. cnt |-> <<to, 4 * a + (k - 1), 0, 0, BufLen(m[to])>>]]

Join(e1, e2) == [reads |-> e1.reads \cup e2.reads, writes |-> e1.writes \o e2.writes]

\* line 643
AddYHeight(height) == CDiv(height * 2, 3)

\* line 644
AddYPaddingLines(height, oheight) == CDiv((oheight - height) * 2, 3)

\* line 653: the rows of the padded buffer that hold no source row
AddIsPaddingRow(id, height, oheight) ==
    \/ (id >= AddYHeight(height)
        /\ id < AddYHeight(height) + AddYPaddingLines(height, oheight))
    \/ id > height + AddYPaddingLines(height, oheight) - 1

\* lines 663-668: the source row of a padded row that holds one
AddSrcRow(id, height, oheight) ==
    IF id >= AddYHeight(height) + AddYPaddingLines(height, oheight)
    THEN id - AddYPaddingLines(height, oheight)
    ELSE id

\* lines 639-683
AddPaddingEffect(m, c, id, ind) ==
    IF id > c.oheight - 1 THEN NoEffect
    ELSE LET index_dst == id * c.owidth IN
         IF AddIsPaddingRow(id, c.height, c.oheight)
         THEN ZeroEffect(m, "pad", index_dst, index_dst + c.owidth)
         ELSE LET index_src == AddSrcRow(id, c.height, c.oheight) * c.width IN
              Join(CopyEffect(m, "src", "pad", index_src, index_dst, c.width, ind),
                   IF c.owidth > c.width
                   THEN ZeroEffect(m, "pad", index_dst + c.width, index_dst + c.owidth)
                   ELSE NoEffect)

\* A removal that does not skip the rows inserted before the chroma rows.
RemoveSrcRowNoGap(id, height, oheight) == id

\* lines 614-622: the source row of a destination row
RemoveSrcRow(id, height, oheight) ==
    IF id > CDiv(oheight * 2, 3) - 1
    THEN id + CDiv((height - oheight) * 2, 3)
    ELSE id

\* lines 603-628
RemovePaddingEffect(m, c, id, ind) ==
    IF id > c.oheight - 1 THEN NoEffect
    ELSE LET index_dst == id * c.owidth
             index_src == RemoveSrcRow(id, c.height, c.oheight) * c.width
         IN  CopyEffect(m, "pad", "dst", index_src, index_dst, c.owidth, ind)

PaddingInit ==
    \E q \in 1 .. PadMaxQuads, height \in 1 .. PadMaxRows,
       ew \in 0 .. PadMaxExtraW, eh \in 0 .. PadMaxExtraH,
       slack \in 0 .. GridSlack, seed \in Seeds :
        LET width == 4 * q
            owidth == width + ew
            oheight == height + eh
        IN  /\ kernel = "NV12_Add_Padding"
            /\ cfg = [width |-> width, height |-> height,
                      owidth |-> owidth, oheight |-> oheight,
                      grid |-> oheight + slack]
            /\ mem = [src |-> Image(seed, width * height),
                      pad |-> Blank(owidth * oheight),
                      dst |-> Blank(width * height)]
            /\ pc = [id \in 0 .. oheight + slack - 1 |-> "ready"]
            /\ wcnt = [pad |-> Zeros(owidth * oheight), dst |-> Zeros(width * height)]
            /\ oob = {}
            /\ stray = {}

NV12_Add_Padding(id) ==
    /\ kernel = "NV12_Add_Padding"
    /\ \E ind \in Indeterminate :
           Commit(id, id < cfg.oheight, AddPaddingEffect(mem, cfg, id, ind))

\* The host runs NV12_Remove_Padding on the padded buffer once every unit
\* of NV12_Add_Padding has finished, with the same tight and padded sizes.
PaddingHandoff ==
    /\ kernel = "NV12_Add_Padding"
    /\ AllDone
    /\ kernel' = "NV12_Remove_Padding"
    /\ cfg' = [width |-> cfg.owidth, height |-> cfg.oheight,
               owidth |-> cfg.width, oheight |-> cfg.height,
               grid |-> cfg.height + (cfg.grid - cfg.oheight)]
    /\ pc' = [id \in 0 .. cfg.height + (cfg.grid - cfg.oheight) - 1 |-> "ready"]
    /\ UNCHANGED <<mem, wcnt, oob, stray>>

NV12_Remove_Padding(id) ==
    /\ kernel = "NV12_Remove_Padding"
    /\ \E ind \in Indeterminate :
           Commit(id, id < cfg.oheight, RemovePaddingEffect(mem, cfg, id, ind))

PaddingNext ==
    \/ \E id \in DOMAIN pc : NV12_Add_Padding(id)
    \/ PaddingHandoff
    \/ \E id \in DOMAIN pc : NV12_Remove_Padding(id)

SpecPadding == PaddingInit /\ [][PaddingNext]_vars

(***************************************************************************)
(* ScaleConvert_NV12_I420, NV12_I420, I420_NV12: one unit per pixel.       *)
(*   cfg = [srcConfig, dstConfig, RectConfig2, grid = <<columns, rows>>,   *)
(*          first = the kernel and scale of the first conversion]          *)
(*         srcConfig and dstConfig are indexed by the CONFIG_ constants;   *)
(*         RectConfig2 holds twice the scale factors RECT_KX and RECT_KY,  *)
(*         so the factors 1 and 1.5 are 2 and 3                            *)
(*   mem = [src, dsty, dstu, dstv, dst]: the NV12 source, the three I420   *)
(*         planes, and the NV12 buffer I420_NV12 writes                    *)
(*   unit = <<x, y>>: thread_position_in_grid                              *)
(***************************************************************************)
CONFIG_WIDTH == 0
CONFIG_HEIGHT == 1
CONFIG_X == 2
CONFIG_Y == 3
CONFIG_HALF_W == 4
CONFIG_WH == 5
RECT_KX == 0
RECT_KY == 1

\* Twice the scale factors the model draws: 1 and 1.5.
RectScales2 == {2, 3}

\* The region descriptor of a w x h image at origin 0.
Config(w, h) ==
    [k \in 0 .. 5 |->
        CASE k = CONFIG_WIDTH -> w
          [] k = CONFIG_HEIGHT -> h
          [] k = CONFIG_X -> 0
          [] k = CONFIG_Y -> 0
          [] k = CONFIG_HALF_W -> w \div 2
          [] k = CONFIG_WH -> w * h]

\* lines 415-416, 423-425: twice the source coordinate, its integer part
\* (convert_int2 truncates) and twice its fractional part
SrcCoordinate2(origin, now, k2) == 2 * origin + now * k2

SrcInt(origin, now, k2) == SrcCoordinate2(origin, now, k2) \div 2

Decimal2(origin, now, k2) == SrcCoordinate2(origin, now, k2) % 2

\* lines 435-437: a + (b - a) * decimal, stored back into a uchar
Interp(a, b, d2) == (2 * a + (b - a) * d2) \div 2

\* coord & 0xfffffffe
EvenMask(c) == c - (c % 2)

\* lines 440, 508, 580
IsChromaSite(dx, dy) == (dx % 2 = 0) /\ (dy % 2 = 0)

\* lines 448, 514
SrcUVnum(sc, ix, iy) ==
    mad24(sc[CONFIG_HALF_W], EvenMask(iy), EvenMask(ix) + sc[CONFIG_WH])

\* lines 451, 517: the element of the U and V planes a chroma site goes to
NowUNum(dc, dx, dy) == mad24(dc[CONFIG_WIDTH] \div 4, dy, dx \div 2)

\* line 584
SrcUNum(sc, ix, iy) == mad24(sc[CONFIG_WIDTH] \div 4, EvenMask(iy), EvenMask(ix) \div 2)

\* line 589
DstUVnum(dc, dx, dy) == mad24(dc[CONFIG_HALF_W], dy, dx + dc[CONFIG_WH])

\* line 478: the only guard of NV12_I420
NV12_I420_Guard(c, u) == u[2] >= c.dstConfig[CONFIG_WIDTH]

\* lines 544-552: the guards of I420_NV12
I420_NV12_Guard(c, u) ==
    u[2] >= c.srcConfig[CONFIG_HEIGHT] \/ u[1] >= c.srcConfig[CONFIG_WIDTH]

LumaLen(sc) == sc[CONFIG_WH]

ChromaEnd(sc) == sc[CONFIG_WH] + sc[CONFIG_WH] \div 2

PlaneLen(dc) == (dc[CONFIG_WIDTH] \div 2) * (dc[CONFIG_HEIGHT] \div 2)

\* lines 409-456
ScaleConvertEffect(m, c, u, ind) ==
    LET sc == c.srcConfig
        dc == c.dstConfig
        ix == SrcInt(sc[CONFIG_X], u[1], c.RectConfig2[RECT_KX])
        iy == SrcInt(sc[CONFIG_Y], u[2], c.RectConfig2[RECT_KY])
        decx == Decimal2(sc[CONFIG_X], u[1], c.RectConfig2[RECT_KX])
        decy == Decimal2(sc[CONFIG_Y], u[2], c.RectConfig2[RECT_KY])
        dx == u[1] + dc[CONFIG_X]
        dy == u[2] + dc[CONFIG_Y]
        srcNum == mad24(iy, sc[CONFIG_WIDTH], ix)
        dstNum == mad24(dy, dc[CONFIG_WIDTH], dx)
        below == srcNum + sc[CONFIG_WIDTH]
        x00 == Load(m, "src", srcNum, ind)
        x10 == Load(m, "src", srcNum + 1, ind)
        x01 == Load(m, "src", below, ind)
        x11 == Load(m, "src", below + 1, ind)
        left == Interp(x00, x01, decy)
        right == Interp(x10, x11, decy)
        luma == Interp(left, right, decx)
        uv == SrcUVnum(sc, ix, iy)
        nowUNum == NowUNum(dc, dx, dy)
        lumaEff ==
            [reads |-> {<<"src", srcNum, 0, LumaLen(sc)>>,
                        <<"src", srcNum + 1, 0, LumaLen(sc)>>,
                        <<"src", below, 0, LumaLen(sc)>>,
                        <<"src", below + 1, 0, LumaLen(sc)>>},
             writes |-> << <<"dsty", dstNum, luma, 0, LumaLen(dc)>> >>]
        chromaEff ==
            [reads |-> {<<"src", uv, LumaLen(sc), ChromaEnd(sc)>>,
                        <<"src", uv + 1, LumaLen(sc), ChromaEnd(sc)>>},
             writes |-> << <<"dstu", nowUNum, Load(m, "src", uv, ind), 0, PlaneLen(dc)>>,
                           <<"dstv", nowUNum, Load(m, "src", uv + 1, ind), 0, PlaneLen(dc)>> >>]
    IN  IF IsChromaSite(dx, dy) THEN Join(lumaEff, chromaEff) ELSE lumaEff

\* lines 470-523
NV12_I420_Effect(m, c, u, ind) ==
    LET sc == c.srcConfig
        dc == c.dstConfig
        ix == SrcInt(sc[CONFIG_X], u[1], c.RectConfig2[RECT_KX])
        iy == SrcInt(sc[CONFIG_Y], u[2], c.RectConfig2[RECT_KY])
        dx == u[1] + dc[CONFIG_X]
        dy == u[2] + dc[CONFIG_Y]
        srcNum == mad24(iy, sc[CONFIG_WIDTH], ix)
        dstNum == mad24(dy, dc[CONFIG_WIDTH], dx)
        uv == SrcUVnum(sc, ix, iy)
        nowUNum == NowUNum(dc, dx, dy)
        lumaEff ==
            [reads |-> {<<"src", srcNum, 0, LumaLen(sc)>>,
                        <<"src", srcNum + 1, 0, LumaLen(sc)>>},
             writes |-> << <<"dsty", dstNum, Load(m, "src", srcNum, ind), 0, LumaLen(dc)>> >>]
        chromaEff ==
            [reads |-> {<<"src", uv, LumaLen(sc), ChromaEnd(sc)>>,
                        <<"src", uv + 1, LumaLen(sc), ChromaEnd(sc)>>},
             writes |-> << <<"dstu", nowUNum, Load(m, "src", uv, ind), 0, PlaneLen(dc)>>,
                           <<"dstv", nowUNum, Load(m, "src", uv + 1, ind), 0, PlaneLen(dc)>> >>]
    IN  IF NV12_I420_Guard(c, u) THEN NoEffect
        ELSE IF IsChromaSite(dx, dy) THEN Join(lumaEff, chromaEff) ELSE lumaEff

\* lines 536-592
I420_NV12_Effect(m, c, u, ind) ==
    LET sc == c.srcConfig
        dc == c.dstConfig
        ix == SrcInt(sc[CONFIG_X], u[1], c.RectConfig2[RECT_KX])
        iy == SrcInt(sc[CONFIG_Y], u[2], c.RectConfig2[RECT_KY])
        dx == u[1] + dc[CONFIG_X]
        dy == u[2] + dc[CONFIG_Y]
        srcNum == mad24(iy, sc[CONFIG_WIDTH], ix)
        dstNum == mad24(dy, dc[CONFIG_WIDTH], dx)
        nowUNum == SrcUNum(sc, ix, iy)
        uv == DstUVnum(dc, dx, dy)
        lumaEff ==
            [reads |-> {<<"dsty", srcNum, 0, LumaLen(sc)>>,
                        <<"dsty", srcNum + 1, 0, LumaLen(sc)>>},
             writes |-> << <<"dst", dstNum, Load(m, "dsty", srcNum, ind), 0, LumaLen(dc)>> >>]
        chromaEff ==
            [reads |-> {<<"dstu", nowUNum, 0, PlaneLen(sc)>>,
                        <<"dstv", nowUNum, 0, PlaneLen(sc)>>},
             writes |-> << <<"dst", uv, Load(m, "dstu", nowUNum, ind),
                             LumaLen(dc), ChromaEnd(dc)>>,
                           <<"dst", uv + 1, Load(m, "dstv", nowUNum, ind),
                             LumaLen(dc), ChromaEnd(dc)>> >>]
    IN  IF I420_NV12_Guard(c, u) THEN NoEffect
        ELSE IF IsChromaSite(dx, dy) THEN Join(lumaEff, chromaEff) ELSE lumaEff

InImage(c, u) ==
    u[1] < c.dstConfig[CONFIG_WIDTH] /\ u[2] < c.dstConfig[CONFIG_HEIGHT]

\* The NV12 source covers the scaled destination: the same size at scale 1,
\* twice the size at scale 1.5.
FormatInit ==
    \E hw \in 1 .. FormatMaxUnits, hh \in 1 .. FormatMaxUnits,
       sx \in 0 .. GridSlack, sy \in 0 .. GridSlack,
       k2 \in RectScales2, seed \in Seeds,
       first \in {"ScaleConvert_NV12_I420", "NV12_I420"} :
        LET w == 2 * hw
            h == 2 * hh
            sw == w * (k2 - 1)
            sh == h * (k2 - 1)
        IN  /\ (w + sx) * (h + sy) <= FormatMaxUnits
            /\ kernel = first
            /\ cfg = [srcConfig |-> Config(sw, sh), dstConfig |-> Config(w, h),
                      RectConfig2 |-> [k \in 0 .. 1 |-> k2],
                      grid |-> <<w + sx, h + sy>>,
                      first |-> [kernel |-> first, k2 |-> k2]]
            /\ mem = [src |-> Image(seed, (sw * sh * 3) \div 2),
                      dsty |-> Blank(w * h),
                      dstu |-> Blank((w \div 2) * (h \div 2)),
                      dstv |-> Blank((w \div 2) * (h \div 2)),
                      dst |-> Blank((w * h * 3) \div 2)]
            /\ pc = [u \in (0 .. w + sx - 1) \X (0 .. h + sy - 1) |-> "ready"]
            /\ wcnt = [dsty |-> Zeros(w * h),
                       dstu |-> Zeros((w \div 2) * (h \div 2)),
                       dstv |-> Zeros((w \div 2) * (h \div 2)),
                       dst |-> Zeros((w * h * 3) \div 2)]
            /\ oob = {}
            /\ stray = {}

ScaleConvert_NV12_I420(u) ==
    /\ kernel = "ScaleConvert_NV12_I420"
    /\ \E ind \in Indeterminate :
           Commit(u, InImage(cfg, u), ScaleConvertEffect(mem, cfg, u, ind))

NV12_I420(u) ==
    /\ kernel = "NV12_I420"
    /\ \E ind \in Indeterminate :
           Commit(u, InImage(cfg, u), NV12_I420_Effect(mem, cfg, u, ind))

\* The host runs I420_NV12 on the three planes once every unit of the first
\* conversion has finished, at scale 1 over an image of the same size.
FormatHandoff ==
    /\ kernel \in {"ScaleConvert_NV12_I420", "NV12_I420"}
    /\ AllDone
    /\ kernel' = "I420_NV12"
    /\ cfg' = [cfg EXCEPT !.srcConfig = cfg.dstConfig,
                          !.RectConfig2 = [k \in 0 .. 1 |-> 2]]
    /\ pc' = [u \in DOMAIN pc |-> "ready"]
    /\ UNCHANGED <<mem, wcnt, oob, stray>>

I420_NV12(u) ==
    /\ kernel = "I420_NV12"
    /\ \E ind \in Indeterminate :
           Commit(u, InImage(cfg, u), I420_NV12_Effect(mem, cfg, u, ind))

FormatNext ==
    \/ \E u \in DOMAIN pc : ScaleConvert_NV12_I420(u)
    \/ \E u \in DOMAIN pc : NV12_I420(u)
    \/ FormatHandoff
    \/ \E u \in DOMAIN pc : I420_NV12(u)

SpecFormat == FormatInit /\ [][FormatNext]_vars

(***************************************************************************)
(* Packed pixels.  A packed pixel is a 32-bit word, held as the pair of    *)
(* its 16-bit halves <<bits 0-15, bits 16-31>>.  A float4 is a tuple of    *)
(* four exact fractions with a common denominator den, held as their       *)
(* numerators (float rounding is not modelled).                            *)
(***************************************************************************)
\* lines 36-44
dataUchar4ToFloat4(uiPacked) ==
    << uiPacked[1] % 256,
       (uiPacked[1] \div 256) % 256,
       uiPacked[2] % 256,
       (uiPacked[2] \div 256) % 256 >>

\* (uint) of the fraction n / den: truncation; a negative value has no
\* defined conversion and yields the indeterminate value ind.
ToUint(n, den, ind) == IF n >= 0 THEN n \div den ELSE ind

\* lines 49-57: each channel is masked to its low 8 bits and shifted
dataFloat4ToUchar4(f, den, ind) ==
    << (ToUint(f[1], den, ind) % 256) + 256 * (ToUint(f[2], den, ind) % 256),
       (ToUint(f[3], den, ind) % 256) + 256 * (ToUint(f[4], den, ind) % 256) >>

\* The word whose bytes, lowest first, are b[1] .. b[4].
Pack4(b) == <<b[1] + 256 * b[2], b[3] + 256 * b[4]>>

UnwrittenWord == <<Unwritten, Unwritten>>

BlankWords(n) == [i \in 0 .. n - 1 |-> UnwrittenWord]

\* The word a load returns (see Load).
LoadWord(m, buf, i, ind) ==
    IF i \in DOMAIN m[buf] /\ m[buf][i] # UnwrittenWord THEN m[buf][i]
    ELSE Pack4(<<ind, ind, ind, ind>>)

(***************************************************************************)
(* Fusion: one unit per pixel.                                             *)
(*   cfg = [iWidth, iHeight, fMinThresh255, fMaxThresh255, grid]           *)
(*         the thresholds are held as 255 times their value, the           *)
(*         foreground value fg = mask / 255 as the mask byte               *)
(*   mem = [puiDataIn, pucFrame, piLabelIn, puiDataOut]                    *)
(*   unit = <<X, Y>>                                                       *)
(***************************************************************************)
\* 255 times the thresholds the model draws: -1, 0, 0.3, 0.5, 1, 2.
Thresholds255 == {0 - 255, 0, 77, 128, 255, 510}

\* The mask bytes of pixel 0; pixel i has them rotated by i channels.
MaskPatterns ==
    { <<0, 0, 0, 0>>, <<255, 255, 255, 255>>, <<0, 100, 200, 255>>, <<128, 77, 254, 1>> }

\* A regime test that looks at the first channel's mask for every channel.
FusionChannelSharedMask(blur, fram, fore, c, tmin, tmax) ==
    IF fore[1] >= tmin /\ fore[1] < tmax
    THEN fram[c] * fore[1] + blur[c] * (255 - fore[1])
    ELSE IF fore[1] >= tmax THEN fram[c] * 255 ELSE blur[c] * 255

\* A cross-dissolve with the two weights exchanged.
FusionChannelSwappedWeights(blur, fram, fore, c, tmin, tmax) ==
    IF fore[c] >= tmin /\ fore[c] < tmax
    THEN fram[c] * (255 - fore[c]) + blur[c] * fore[c]
    ELSE IF fore[c] >= tmax THEN fram[c] * 255 ELSE blur[c] * 255

\* lines 261-295: channel c of fl4_FusnValue, as a numerator over 255
FusionChannel(blur, fram, fore, c, tmin, tmax) ==
    IF fore[c] >= tmin /\ fore[c] < tmax
    THEN fram[c] * fore[c] + blur[c] * (255 - fore[c])
    ELSE IF fore[c] >= tmax THEN fram[c] * 255 ELSE blur[c] * 255

\* line 254: vload4(nOffSet, pucFrame)
FrameValue(m, nOffSet, ind) ==
    [c \in 1 .. 4 |-> Load(m, "pucFrame", 4 * nOffSet + c - 1, ind)]

\* lines 235-299
FusionEffect(m, c, u, ind) ==
    LET nOffSet == u[2] * c.iWidth + u[1]
        blur == dataUchar4ToFloat4(LoadWord(m, "puiDataIn", nOffSet, ind))
        fore == dataUchar4ToFloat4(LoadWord(m, "piLabelIn", nOffSet, ind))
        fram == FrameValue(m, nOffSet, ind)
        fusn == [k \in 1 .. 4 |->
                    FusionChannel(blur, fram, fore, k, c.fMinThresh255, c.fMaxThresh255)]
        n == c.iWidth * c.iHeight
    IN  IF u[1] < c.iWidth /\ u[2] < c.iHeight
        THEN [reads |-> {<<"puiDataIn", nOffSet, 0, n>>, <<"piLabelIn", nOffSet, 0, n>>}
                        \cup {<<"pucFrame", 4 * nOffSet + k, 0, 4 * n>> : k \in 0 .. 3},
              writes |-> << <<"puiDataOut", nOffSet,
                              dataFloat4ToUchar4(fusn, 255, ind), 0, n>> >>]
        ELSE NoEffect

Rotate(t, i) == [k \in 1 .. 4 |-> t[((k - 1 + i) % 4) + 1]]

FusionInit ==
    \E w \in 1 .. FusionMaxUnits, h \in 1 .. FusionMaxUnits,
       sx \in 0 .. GridSlack, sy \in 0 .. GridSlack,
       tmin \in Thresholds255, tmax \in Thresholds255,
       pat \in MaskPatterns, seed \in Seeds :
        /\ (w + sx) * (h + sy) <= FusionMaxUnits
        /\ kernel = "Fusion"
        /\ cfg = [iWidth |-> w, iHeight |-> h,
                  fMinThresh255 |-> tmin, fMaxThresh255 |-> tmax,
                  grid |-> <<w + sx, h + sy>>]
        /\ mem = [puiDataIn |->
                      [i \in 0 .. w * h - 1 |->
                          Pack4([k \in 1 .. 4 |-> (seed + 37 * (4 * i + k)) % 256])],
                  pucFrame |-> Image(seed + 91, 4 * w * h),
                  piLabelIn |-> [i \in 0 .. w * h - 1 |-> Pack4(Rotate(pat, i))],
                  puiDataOut |-> BlankWords(w * h)]
        /\ pc = [u \in (0 .. w + sx - 1) \X (0 .. h + sy - 1) |-> "ready"]
        /\ wcnt = [puiDataOut |-> Zeros(w * h)]
        /\ oob = {}
        /\ stray = {}

Fusion(u) ==
    /\ kernel = "Fusion"
    /\ \E ind \in Indeterminate :
           Commit(u, u[1] < cfg.iWidth /\ u[2] < cfg.iHeight,
                  FusionEffect(mem, cfg, u, ind))

FusionNext == \E u \in DOMAIN pc : Fusion(u)

SpecFusion == FusionInit /\ [][FusionNext]_vars

(***************************************************************************)
(* GaussianBlur: one unit per column, a forward and a reverse pass.        *)
(*   cfg = [iWidth, iHeight, coef = [a0, a1, a2, a3, b1, b2, coefp,        *)
(*          coefn, den], clamp = whether YL_CL_CLAMP_TO_EDGE is defined,   *)
(*          grid]                                                          *)
(*         a coefficient is the fraction of its field over coef.den; a     *)
(*         float of the kernel is an exact fraction, held as its numerator *)
(*         over BlurDen, a denominator that every value of a column of     *)
(*         iHeight rows has                                                *)
(*   mem = [puiDataInp, puiDataOut]                                        *)
(*   unit = nIdX;  pc = "ready" -> "reverse" -> "done"; a unit with        *)
(*          nIdX >= iWidth returns at line 159: "ready" -> "done"          *)
(***************************************************************************)
Coefficients ==
    { [a0 |-> 1, a1 |-> 0, a2 |-> 0, a3 |-> 0, b1 |-> 0, b2 |-> 0, coefp |-> 1, coefn |-> 1, den |-> 1],
      [a0 |-> 2, a1 |-> 1, a2 |-> 1, a3 |-> 0, b1 |-> 1, b2 |-> 0 - 1, coefp |-> 1, coefn |-> 1, den |-> 1],
      [a0 |-> 1, a1 |-> 2, a2 |-> 3, a3 |-> 1, b1 |-> 0 - 1, b2 |-> 0, coefp |-> 2, coefn |-> 3, den |-> 2] }

\* Input images: a ramp, or every channel of every pixel 127.
BlurImages == {"ramp", "flat"}

Zero4 == <<0, 0, 0, 0>>

Scale4(f, k) == <<f[1] * k, f[2] * k, f[3] * k, f[4] * k>>

\* The common denominator of the floats of a column: every row divides by
\* coef.den once more, and so does the seeding with coefp or coefn.
BlurDen(c) == c.coef.den ^ (c.iHeight + 1)

\* The float4 of a packed pixel, over BlurDen.
BlurUnpack(c, uiPacked) == Scale4(dataUchar4ToFloat4(uiPacked), BlurDen(c))

\* lines 172, 200: yb = xp * (float4)coefp, yn = xn * (float4)coefn
BlurSeed(f, gain, k) ==
    LET y(c) == (f[c] * gain) \div k.den IN <<y(1), y(2), y(3), y(4)>>

\* line 179: yc = (xc * a0) + (xp * a1) - (yp * b1) - (yb * b2)
ForwardYc(xc, xp, yp, yb, k) ==
    LET y(c) == CDiv(xc[c] * k.a0 + xp[c] * k.a1 - yp[c] * k.b1 - yb[c] * k.b2, k.den)
    IN  <<y(1), y(2), y(3), y(4)>>

\* A reverse pass whose two input taps are exchanged.
ReverseYcSwappedTaps(xn, xa, yn, ya, k) ==
    LET y(c) == CDiv(xn[c] * k.a3 + xa[c] * k.a2 - yn[c] * k.b1 - ya[c] * k.b2, k.den)
    IN  <<y(1), y(2), y(3), y(4)>>

\* line 208: yc = (xn * a2) + (xa * a3) - (yn * b1) - (ya * b2)
ReverseYc(xn, xa, yn, ya, k) ==
    LET y(c) == CDiv(xn[c] * k.a2 + xa[c] * k.a3 - yn[c] * k.b1 - ya[c] * k.b2, k.den)
    IN  <<y(1), y(2), y(3), y(4)>>

\* A reverse pass that overwrites the forward response.
ReverseStoreOverwrite(old, yc, den, ind) == dataFloat4ToUchar4(yc, den, ind)

\* lines 213-215: the reverse response is added to the stored forward one
ReverseStore(old, yc, den, ind) ==
    LET was == dataUchar4ToFloat4(old)
        fTemp(c) == was[c] * den + yc[c]
    IN  dataFloat4ToUchar4(<<fTemp(1), fTemp(2), fTemp(3), fTemp(4)>>, den, ind)

\* lines 176-186: the stores of the forward loop from row nIdY on
RECURSIVE ForwardWrites(_, _, _, _, _, _, _, _)
ForwardWrites(m, c, nIdX, nIdY, xp, yp, yb, ind) ==
    IF nIdY >= c.iHeight THEN <<>>
    ELSE LET at == nIdY * c.iWidth + nIdX
             xc == BlurUnpack(c, LoadWord(m, "puiDataInp", at, ind))
             yc == ForwardYc(xc, xp, yp, yb, c.coef)
         IN  << <<"puiDataOut", at, dataFloat4ToUchar4(yc, BlurDen(c), ind),
                  0, c.iWidth * c.iHeight>> >>
             \o ForwardWrites(m, c, nIdX, nIdY + 1, xc, yc, yp, ind)

\* lines 205-218: the stores of the reverse loop from row nIdY down
RECURSIVE ReverseWrites(_, _, _, _, _, _, _, _, _)
ReverseWrites(m, c, nIdX, nIdY, xn, xa, yn, ya, ind) ==
    IF nIdY <= -1 THEN <<>>
    ELSE LET at == nIdY * c.iWidth + nIdX
             xc == BlurUnpack(c, LoadWord(m, "puiDataInp", at, ind))
             yc == ReverseYc(xn, xa, yn, ya, c.coef)
         IN  << <<"puiDataOut", at,
                  ReverseStore(LoadWord(m, "puiDataOut", at, ind), yc, BlurDen(c), ind),
                  0, c.iWidth * c.iHeight>> >>
             \o ReverseWrites(m, c, nIdX, nIdY - 1, xc, xn, yc, yn, ind)

ColumnReads(c, nIdX, buf) ==
    {<<buf, r * c.iWidth + nIdX, 0, c.iWidth * c.iHeight>> : r \in 0 .. c.iHeight - 1}

\* lines 150-186: the forward pass of one unit
ForwardEffect(m, c, nIdX, ind) ==
    LET first == BlurUnpack(c, LoadWord(m, "puiDataInp", nIdX, ind))
        xp == IF c.clamp THEN first ELSE Zero4
        yb == IF c.clamp THEN BlurSeed(first, c.coef.coefp, c.coef) ELSE Zero4
    IN  IF nIdX >= c.iWidth THEN NoEffect
        ELSE [reads |-> ColumnReads(c, nIdX, "puiDataInp"),
              writes |-> ForwardWrites(m, c, nIdX, 0, xp, yb, yb, ind)]

\* lines 188-218: the reverse pass of one unit
ReverseEffect(m, c, nIdX, ind) ==
    LET last == BlurUnpack(c,
                    LoadWord(m, "puiDataInp", (c.iHeight - 1) * c.iWidth + nIdX, ind))
        xn == IF c.clamp THEN last ELSE Zero4
        yn == IF c.clamp THEN BlurSeed(last, c.coef.coefn, c.coef) ELSE Zero4
    IN  IF nIdX >= c.iWidth THEN NoEffect
        ELSE [reads |-> ColumnReads(c, nIdX, "puiDataInp")
                        \cup ColumnReads(c, nIdX, "puiDataOut"),
              writes |-> ReverseWrites(m, c, nIdX, c.iHeight - 1, xn, xn, yn, yn, ind)]

BlurInit ==
    \E w \in 1 .. BlurMaxUnits, h \in 1 .. BlurMaxRows, slack \in 0 .. GridSlack,
       k \in Coefficients, clamp \in BOOLEAN, img \in BlurImages :
        /\ w + slack <= BlurMaxUnits
        /\ kernel = "GaussianBlur"
        /\ cfg = [iWidth |-> w, iHeight |-> h, coef |-> k, clamp |-> clamp,
                  grid |-> w + slack]
        /\ mem = [puiDataInp |->
                      [i \in 0 .. w * h - 1 |->
                          IF img = "flat" THEN Pack4(<<127, 127, 127, 127>>)
                          ELSE Pack4([c \in 1 .. 4 |-> (3 + 37 * (4 * i + c)) % 256])],
                  puiDataOut |-> BlankWords(w * h)]
        /\ pc = [nIdX \in 0 .. w + slack - 1 |-> "ready"]
        /\ wcnt = [puiDataOut |-> Zeros(w * h)]
        /\ oob = {}
        /\ stray = {}

GaussianBlurForward(nIdX) ==
    /\ kernel = "GaussianBlur"
    /\ \E ind \in Indeterminate :
           CommitStep(nIdX, nIdX < cfg.iWidth, ForwardEffect(mem, cfg, nIdX, ind),
                      "ready", IF nIdX < cfg.iWidth THEN "reverse" ELSE "done", TRUE)

GaussianBlurReverse(nIdX) ==
    /\ kernel = "GaussianBlur"
    /\ \E ind \in Indeterminate :
           CommitStep(nIdX, nIdX < cfg.iWidth, ReverseEffect(mem, cfg, nIdX, ind),
                      "reverse", "done", FALSE)

BlurNext ==
    \/ \E nIdX \in DOMAIN pc : GaussianBlurForward(nIdX)
    \/ \E nIdX \in DOMAIN pc : GaussianBlurReverse(nIdX)

SpecBlur == BlurInit /\ [][BlurNext]_vars

(***************************************************************************)
(* ResizeBillinear: one unit per destination pixel.                        *)
(*   cfg = [src_step, src_rows, src_cols, ifx, ify, dst_step, dst_rows,    *)
(*          dst_cols, grid]; a scale factor is a fraction <<p, q>> = p / q *)
(*   mem = [srcptr, dstptr]                                                *)
(*   unit = <<dx, dy>>                                                     *)
(* A float is held as an exact fraction: sx has the denominator 2p, the    *)
(* weights u and v are numerators over 2p, fval a numerator over the       *)
(* product of the two denominators.                                        *)
(***************************************************************************)
ResizeScales == {<<1, 1>>, <<2, 1>>, <<1, 2>>, <<3, 2>>}

\* The denominator of sx and of the weight for the scale factor f.
ResizeDen(f) == 2 * f[1]

\* A source coordinate without the half-pixel offset: (dx + 0.5f) * inv_fx.
ResizeSrcNumNoCentre(d, f) == (2 * d + 1) * f[2]

\* lines 340-341, 345-346: sx = (dx + 0.5f) * inv_fx - 0.5f, as a numerator
\* over ResizeDen(f)
ResizeSrcNum(d, f) == (2 * d + 1) * f[2] - f[1]

\* lines 348-349: floor(sx)
ResizeFloor(d, f) == ResizeSrcNum(d, f) \div ResizeDen(f)

\* An increment without the edge guard.
INCUnguarded(x, l) == x + 1

\* line 17: #define INC(x, l) min(x + 1, l - 1)
INC(x, l) == IF x + 1 <= l - 1 THEN x + 1 ELSE l - 1

\* lines 348-379 for one axis: the sampled coordinate x, its neighbour x_,
\* the weight u (a numerator over ResizeDen(f)) and whether x was clamped
ResizeAxis(d, f, len) ==
    LET x0 == ResizeFloor(d, f)
        u0 == ResizeSrcNum(d, f) - x0 * ResizeDen(f)
        x1 == IF x0 < 0 THEN 0 ELSE x0
        u1 == IF x0 < 0 THEN 0 ELSE u0
        x2 == IF x1 >= len THEN len - 1 ELSE x1
        u2 == IF x1 >= len THEN 0 ELSE u1
    IN  [x |-> x2, x_ |-> INC(x2, len), u |-> u2,
         clamped |-> (x0 < 0) \/ (x1 >= len)]

\* lines 388-390: fval + 0.5 clamped to [0, 255] and truncated to a byte;
\* n is the numerator of fval over den
ResizePixel(n, den) ==
    IF 2 * n + den <= 0 THEN 0
    ELSE IF 2 * n + den > 510 * den THEN 255
    ELSE (2 * n + den) \div (2 * den)

\* lines 335-393
ResizeEffect(m, c, i, ind) ==
    LET h == ResizeAxis(i[1], c.ifx, c.src_cols)
        w == ResizeAxis(i[2], c.ify, c.src_rows)
        du == ResizeDen(c.ifx)
        dv == ResizeDen(c.ify)
        n == c.src_step * c.src_rows
        at0 == mad24(w.x, c.src_step, h.x)
        at1 == mad24(w.x, c.src_step, h.x_)
        at2 == mad24(w.x_, c.src_step, h.x)
        at3 == mad24(w.x_, c.src_step, h.x_)
        fval == (du - h.u) * (dv - w.u) * Load(m, "srcptr", at0, ind)
                + h.u * (dv - w.u) * Load(m, "srcptr", at1, ind)
                + (du - h.u) * w.u * Load(m, "srcptr", at2, ind)
                + h.u * w.u * Load(m, "srcptr", at3, ind)
        nOffSet == mad24(i[2], c.dst_step, i[1])
    IN  IF i[1] < c.dst_cols /\ i[2] < c.dst_rows
        THEN [reads |-> {<<"srcptr", at, 0, n>> : at \in {at0, at1, at2, at3}},
              writes |-> << <<"dstptr", nOffSet, ResizePixel(fval, du * dv),
                              0, c.dst_step * c.dst_rows>> >>]
        ELSE NoEffect

ResizeInit ==
    \E sc \in 1 .. ResizeMaxUnits, sr \in 1 .. ResizeMaxUnits,
       dc \in 1 .. ResizeMaxUnits, dr \in 1 .. ResizeMaxUnits,
       sp \in 0 .. ResizeMaxPad, dp \in 0 .. ResizeMaxPad,
       gx \in 0 .. GridSlack, gy \in 0 .. GridSlack,
       fx \in ResizeScales, fy \in ResizeScales :
        /\ sc * sr <= ResizeMaxUnits
        /\ (dc + gx) * (dr + gy) <= ResizeMaxUnits
        /\ kernel = "ResizeBillinear"
        /\ cfg = [src_step |-> sc + sp, src_rows |-> sr, src_cols |-> sc,
                  ifx |-> fx, ify |-> fy,
                  dst_step |-> dc + dp, dst_rows |-> dr, dst_cols |-> dc,
                  grid |-> <<dc + gx, dr + gy>>]
        /\ mem = [srcptr |-> Image(200, (sc + sp) * sr),
                  dstptr |-> Blank((dc + dp) * dr)]
        /\ pc = [i \in (0 .. dc + gx - 1) \X (0 .. dr + gy - 1) |-> "ready"]
        /\ wcnt = [dstptr |-> Zeros((dc + dp) * dr)]
        /\ oob = {}
        /\ stray = {}

ResizeBillinear(i) ==
    /\ kernel = "ResizeBillinear"
    /\ \E ind \in Indeterminate :
           Commit(i, i[1] < cfg.dst_cols /\ i[2] < cfg.dst_rows,
                  ResizeEffect(mem, cfg, i, ind))

ResizeNext == \E i \in DOMAIN pc : ResizeBillinear(i)

SpecResize == ResizeInit /\ [][ResizeNext]_vars

\* Whether the invocation index of unit u lies inside the image the running
\* kernel processes.
UnitInImage(u) ==
    CASE kernel = "Transpose" ->
            TransposeLoadGuard(TransposeIndexX(u, cfg.localSize),
                               TransposeIndexY(u, cfg.localSize), cfg.width, cfg.height)
      [] kernel \in {"NV12_Add_Padding", "NV12_Remove_Padding"} -> u < cfg.oheight
      [] kernel \in {"ScaleConvert_NV12_I420", "NV12_I420", "I420_NV12"} ->
            InImage(cfg, u)
      [] kernel = "Fusion" -> u[1] < cfg.iWidth /\ u[2] < cfg.iHeight
      [] kernel = "GaussianBlur" -> u < cfg.iWidth
      [] kernel = "ResizeBillinear" -> u[1] < cfg.dst_cols /\ u[2] < cfg.dst_rows

\* The buffers the running kernel writes its result to.
Outputs ==
    CASE kernel = "Transpose" -> {"odata"}
      [] kernel = "NV12_Add_Padding" -> {"pad"}
      [] kernel = "NV12_Remove_Padding" -> {"dst"}
      [] kernel \in {"ScaleConvert_NV12_I420", "NV12_I420"} -> {"dsty", "dstu", "dstv"}
      [] kernel = "I420_NV12" -> {"dst"}
      [] kernel \in {"Fusion", "GaussianBlur"} -> {"puiDataOut"}
      [] kernel = "ResizeBillinear" -> {"dstptr"}

\* The first conversion ran at scale 1 (all origins are 0).
IdentityTransform == cfg.first.k2 = 2

ImgW == cfg.dstConfig[CONFIG_WIDTH]

ImgH == cfg.dstConfig[CONFIG_HEIGHT]

(***************************************************************************)
(* Claims                                                                  *)
(***************************************************************************)

C3_PaddingRoundTrip ==
    (kernel = "NV12_Remove_Padding" /\ AllDone) => mem.dst = mem.src

\* A finished round trip through a buffer padded in both axes, with rows
\* inserted before the chroma rows.
C3_Witness ==
    /\ kernel = "NV12_Remove_Padding" /\ AllDone
    /\ cfg.width > cfg.owidth /\ cfg.oheight >= 3
    /\ CDiv((cfg.height - cfg.oheight) * 2, 3) >= 1

\* C2: format round trip.  For every NV12 image of even width and height,
\* at scale 1 and origin 0, I420_NV12 applied to the planes NV12_I420
\* produced yields the luma and the interleaved chroma bytes of the image.
C2_FormatRoundTrip ==
    (kernel = "I420_NV12" /\ AllDone /\ cfg.first.kernel = "NV12_I420"
        /\ IdentityTransform) =>
            mem.dst = mem.src

\* C4: NV12_I420 de-interleaving.  For every NV12 image of even width W and
\* even height H at scale 1 and origin 0, once the grid has run,
\* dsty[y * W + x] is the source luma at (x, y), and for every 2 x 2 block
\* (bx, by) the U plane at by * (W / 2) + bx holds the block's U byte and
\* the V plane at the same index its V byte.
C4_Deinterleave ==
    (kernel = "NV12_I420" /\ AllDone /\ IdentityTransform) =>
        /\ \A x \in 0 .. ImgW - 1, y \in 0 .. ImgH - 1 :
               mem.dsty[y * ImgW + x] = mem.src[y * ImgW + x]
        /\ \A bx \in 0 .. (ImgW \div 2) - 1, by \in 0 .. (ImgH \div 2) - 1 :
               /\ mem.dstu[by * (ImgW \div 2) + bx]
                     = mem.src[ImgW * ImgH + by * ImgW + 2 * bx]
               /\ mem.dstv[by * (ImgW \div 2) + bx]
                     = mem.src[ImgW * ImgH + by * ImgW + 2 * bx + 1]

\* C5: no out-of-bounds access at in-bounds indices.  In every kernel and
\* valid configuration, every element a unit inside the image reads or
\* writes lies inside the plane or buffer it addresses.
C5_NoOutOfBounds == \A a \in oob : a[3] = FALSE

\* C6: out-of-range indices are no-ops.  In every kernel, a unit whose
\* invocation index lies outside the image reads no input element and
\* writes no output element.
C6_StrayUnitsIdle == stray = {}

\* C7: single writer per output element.  In every interleaving of a grid
\* that covers the image, no output element is stored to twice, and once
\* the grid has run every output element has been stored to once (the
\* stores of GaussianBlur's reverse pass are not counted).
C7_SingleWriter ==
    (kernel = "Transpose" \/ \A u \in DOMAIN pc : UnitInImage(u)) =>
        /\ \A buf \in Outputs : \A i \in DOMAIN wcnt[buf] : wcnt[buf][i] <= 1
        /\ AllDone => \A buf \in Outputs : \A i \in DOMAIN wcnt[buf] : wcnt[buf][i] = 1

\* The channels of the pixel unit u works on.
FusionBlur(u) == dataUchar4ToFloat4(mem.puiDataIn[u[2] * cfg.iWidth + u[1]])

FusionMask(u) == dataUchar4ToFloat4(mem.piLabelIn[u[2] * cfg.iWidth + u[1]])

FusionFrame(u) == [c \in 1 .. 4 |-> mem.pucFrame[4 * (u[2] * cfg.iWidth + u[1]) + c - 1]]

FusionOut(u) == dataUchar4ToFloat4(mem.puiDataOut[u[2] * cfg.iWidth + u[1]])

FusionRan(u) == kernel = "Fusion" /\ UnitInImage(u) /\ pc[u] = "done"

\* C8: Fusion regimes.  For every in-bounds pixel and each channel c on its
\* own, with fg_c = mask_c / 255 (thresholds with minThresh <= maxThresh,
\* which the three regimes presuppose): the output channel is the blurred
\* channel when fg_c < minThresh, the truncated frame_c * fg_c +
\* blurred_c * (1 - fg_c) when minThresh <= fg_c < maxThresh, and the frame
\* channel when fg_c >= maxThresh, whatever the other channels' regimes.
C8_FusionRegimes ==
    \A u \in DOMAIN pc :
        (FusionRan(u) /\ cfg.fMinThresh255 <= cfg.fMaxThresh255) =>
            \A c \in 1 .. 4 :
                LET m == FusionMask(u)[c]
                    b == FusionBlur(u)[c]
                    f == FusionFrame(u)[c]
                    o == FusionOut(u)[c]
                IN  /\ m < cfg.fMinThresh255 => o = b
                    /\ (m >= cfg.fMinThresh255 /\ m < cfg.fMaxThresh255) =>
                           o = (f * m + b * (255 - m)) \div 255
                    /\ m >= cfg.fMaxThresh255 => o = f

\* A pixel whose four channels are in three different regimes has been fused.
C8_Witness ==
    \E u \in DOMAIN pc :
        /\ FusionRan(u)
        /\ cfg.fMinThresh255 = 77 /\ cfg.fMaxThresh255 = 255
        /\ FusionMask(u) = <<0, 100, 200, 255>>

\* C9 as stated: for every threshold pair with minThresh < maxThresh, a mask
\* of 0 in all channels gives the blurred pixel and a mask of 255 in all
\* channels gives the frame pixel.
C9_FusionEndpoints ==
    \A u \in DOMAIN pc :
        (FusionRan(u) /\ cfg.fMinThresh255 < cfg.fMaxThresh255) =>
            /\ FusionMask(u) = <<0, 0, 0, 0>> => FusionOut(u) = FusionBlur(u)
            /\ FusionMask(u) = <<255, 255, 255, 255>> => FusionOut(u) = FusionFrame(u)

\* C9 amended: for every threshold pair with minThresh < maxThresh, a mask
\* of 0 in all channels gives the blurred pixel provided maxThresh > 0, and
\* a mask of 255 in all channels gives the frame pixel provided
\* minThresh <= 1.
C9_FusionEndpointsInRange ==
    \A u \in DOMAIN pc :
        (FusionRan(u) /\ cfg.fMinThresh255 < cfg.fMaxThresh255) =>
            /\ (FusionMask(u) = <<0, 0, 0, 0>> /\ cfg.fMaxThresh255 > 0) =>
                   FusionOut(u) = FusionBlur(u)
            /\ (FusionMask(u) = <<255, 255, 255, 255>> /\ cfg.fMinThresh255 <= 255) =>
                   FusionOut(u) = FusionFrame(u)

\* A fully masked-in pixel has been fused under thresholds 0.3 and 0.5.
C9_Witness ==
    \E u \in DOMAIN pc :
        /\ FusionRan(u)
        /\ cfg.fMinThresh255 = 77 /\ cfg.fMaxThresh255 = 128
        /\ FusionMask(u) = <<255, 255, 255, 255>>

\* The coefficients a0 = 1, a1 = a2 = a3 = 0, b1 = b2 = 0.
IdentityCoefficients ==
    /\ cfg.coef.a0 = cfg.coef.den
    /\ cfg.coef.a1 = 0 /\ cfg.coef.a2 = 0 /\ cfg.coef.a3 = 0
    /\ cfg.coef.b1 = 0 /\ cfg.coef.b2 = 0

\* C10: GaussianBlur identity pass-through.  With a0 = 1, a1 = a2 = a3 = 0,
\* b1 = b2 = 0 and clamp-seeding disabled, for every image size and every
\* pixel the output pixel equals the input pixel in all four channels, after
\* the forward pass and still after the reverse pass, which adds zero.
C10_BlurIdentity ==
    (kernel = "GaussianBlur" /\ IdentityCoefficients /\ ~cfg.clamp) =>
        \A nIdX \in 0 .. cfg.iWidth - 1 :
            pc[nIdX] \in {"reverse", "done"} =>
                \A r \in 0 .. cfg.iHeight - 1 :
                    dataUchar4ToFloat4(mem.puiDataOut[r * cfg.iWidth + nIdX])
                        = dataUchar4ToFloat4(mem.puiDataInp[r * cfg.iWidth + nIdX])

\* Both passes have run over every column of a 4 x 4 image whose channels
\* are all 127, with the identity coefficients and no clamp-seeding.
C10_Witness ==
    /\ kernel = "GaussianBlur" /\ IdentityCoefficients /\ ~cfg.clamp
    /\ cfg.iWidth = 4 /\ cfg.iHeight = 4
    /\ AllDone
    /\ \A i \in DOMAIN mem.puiDataInp :
           dataUchar4ToFloat4(mem.puiDataInp[i]) = <<127, 127, 127, 127>>
    /\ \A i \in DOMAIN mem.puiDataOut :
           dataUchar4ToFloat4(mem.puiDataOut[i]) = <<127, 127, 127, 127>>

\* The resize maps an image onto one of the same size at scale 1.
ResizeIdentity ==
    /\ kernel = "ResizeBillinear"
    /\ cfg.dst_cols = cfg.src_cols /\ cfg.dst_rows = cfg.src_rows
    /\ cfg.ifx = <<1, 1>> /\ cfg.ify = <<1, 1>>

\* C11: ResizeBillinear identity.  When dst_cols = src_cols, dst_rows =
\* src_rows and fx = fy = 1, every destination pixel (dx, dy) a unit has
\* produced satisfies dstptr[dy * dst_step + dx] = srcptr[dy * src_step + dx],
\* whatever the two row strides (each at least the width).
C11_ResizeIdentity ==
    ResizeIdentity =>
        \A i \in DOMAIN pc :
            (pc[i] = "done" /\ UnitInImage(i)) =>
                mem.dstptr[i[2] * cfg.dst_step + i[1]]
                    = mem.srcptr[i[2] * cfg.src_step + i[1]]

\* A finished identity resize of a 2 x 2 image whose source rows are padded
\* and whose destination rows are tight.
C11_Witness ==
    /\ ResizeIdentity /\ AllDone
    /\ cfg.src_cols = 2 /\ cfg.src_rows = 2
    /\ cfg.src_step = 3 /\ cfg.dst_step = 2

\* Whether the store coordinates of unit u are in bounds (line 109).
TransposeStores(u) ==
    TransposeStoreGuard(TransposeStoreX(u, cfg.localSize),
                        TransposeStoreY(u, cfg.localSize), cfg.width, cfg.height)

\* The unit of the tile of u with the local coordinates of u exchanged.
TransposePartner(u) == <<u[1], u[2], u[4], u[3]>>

BlurX(nIdX, r, ch) ==
    IF r < 0 \/ r >= cfg.iHeight THEN 0
    ELSE dataUchar4ToFloat4(mem.puiDataInp[r * cfg.iWidth + nIdX])[ch] * BlurDen(cfg)

\* The forward responses yf[r] = a0*x[r] + a1*x[r-1] - b1*yf[r-1] - b2*yf[r-2]
\* of rows r .. iHeight - 1 of channel ch of column nIdX, given yf[r-1] and
\* yf[r-2]; element 1 is row r.
RECURSIVE ForwardResponses(_, _, _, _, _)
ForwardResponses(nIdX, ch, r, yp, yb) ==
    IF r >= cfg.iHeight THEN <<>>
    ELSE LET yf == CDiv(cfg.coef.a0 * BlurX(nIdX, r, ch)
                        + cfg.coef.a1 * BlurX(nIdX, r - 1, ch)
                        - cfg.coef.b1 * yp - cfg.coef.b2 * yb, cfg.coef.den)
         IN  <<yf>> \o ForwardResponses(nIdX, ch, r + 1, yf, yp)

\* The reverse responses yr[r] = a2*x[r+1] + a3*x[r+2] - b1*yr[r+1] - b2*yr[r+2]
\* of rows 0 .. r of channel ch of column nIdX, given yr[r+1] and yr[r+2];
\* element 1 is row 0.
RECURSIVE ReverseResponses(_, _, _, _, _)
ReverseResponses(nIdX, ch, r, yn, ya) ==
    IF r < 0 THEN <<>>
    ELSE LET yr == CDiv(cfg.coef.a2 * BlurX(nIdX, r + 1, ch)
                        + cfg.coef.a3 * BlurX(nIdX, r + 2, ch)
                        - cfg.coef.b1 * yn - cfg.coef.b2 * ya, cfg.coef.den)
         IN  ReverseResponses(nIdX, ch, r - 1, yr, yn) \o <<yr>>

\* The responses of a column with zero state outside it.
ForwardResponse(nIdX, ch) == ForwardResponses(nIdX, ch, 0, 0, 0)

ReverseResponse(nIdX, ch) == ReverseResponses(nIdX, ch, cfg.iHeight - 1, 0, 0)

\* The truncating low-8-bit pack of the float n / BlurDen, n >= 0.
BlurByte(n) == (n \div BlurDen(cfg)) % 256

\* The forward response yf truncated to the byte the forward pass stores,
\* as the float the reverse pass reads back.
ForwardStored(yf) == BlurByte(yf) * BlurDen(cfg)

\* Every float the kernel converts for a row with the responses yf and yr
\* is non-negative, so every conversion to unsigned is defined.
BlurConversionsDefined(yf, yr) ==
    /\ yf >= 0
    /\ ForwardStored(yf) + yr >= 0

\* Channel ch of the output pixel of row r of column nIdX.
BlurOut(nIdX, r, ch) == dataUchar4ToFloat4(mem.puiDataOut[r * cfg.iWidth + nIdX])[ch]

\* Both passes of column nIdX have run, without clamp-seeding.
BlurColumnDone(nIdX) ==
    /\ kernel = "GaussianBlur" /\ ~cfg.clamp
    /\ nIdX < cfg.iWidth /\ pc[nIdX] = "done"

\* C13 as stated: after both passes, for every column x < width, every row r
\* and every channel, the output byte is the truncating low-8-bit pack of
\* (forward response at r + reverse response at r), with zero state outside
\* the column and clamp-seeding disabled.
C13_BlurAccumulation ==
    \A nIdX \in DOMAIN pc :
        BlurColumnDone(nIdX) =>
            \A ch \in 1 .. 4 :
                LET yf == ForwardResponse(nIdX, ch)
                    yr == ReverseResponse(nIdX, ch)
                IN  \A r \in 0 .. cfg.iHeight - 1 :
                        BlurConversionsDefined(yf[r + 1], yr[r + 1]) =>
                            BlurOut(nIdX, r, ch) = BlurByte(yf[r + 1] + yr[r + 1])

\* C13 amended: after both passes the output byte is the truncating
\* low-8-bit pack of (the byte the forward pass stored at r + reverse
\* response at r), the stored byte being the truncating low-8-bit pack of
\* the forward response: the forward response loses its fraction and its
\* bits above the eighth before the reverse response is added.
C13_BlurAccumulationStored ==
    \A nIdX \in DOMAIN pc :
        BlurColumnDone(nIdX) =>
            \A ch \in 1 .. 4 :
                LET yf == ForwardResponse(nIdX, ch)
                    yr == ReverseResponse(nIdX, ch)
                IN  \A r \in 0 .. cfg.iHeight - 1 :
                        BlurConversionsDefined(yf[r + 1], yr[r + 1]) =>
                            BlurOut(nIdX, r, ch)
                                = BlurByte(ForwardStored(yf[r + 1]) + yr[r + 1])

\* Both passes have run over a column with fractional coefficients, and at
\* some row the forward response has a fraction, the reverse response is
\* positive and the output byte is not the pack of their sum.
C13_Witness ==
    /\ kernel = "GaussianBlur" /\ AllDone /\ cfg.coef.den = 2 /\ cfg.iHeight >= 3
    /\ \E nIdX \in DOMAIN pc :
          /\ BlurColumnDone(nIdX)
          /\ \E r \in 0 .. cfg.iHeight - 1, ch \in 1 .. 4 :
                LET yf == ForwardResponse(nIdX, ch)[r + 1]
                    yr == ReverseResponse(nIdX, ch)[r + 1]
                IN  /\ BlurConversionsDefined(yf, yr)
                    /\ yf % BlurDen(cfg) # 0
                    /\ yr > 0
                    /\ BlurOut(nIdX, r, ch) # BlurByte(yf + yr)

\* The destination pixel of unit i has been produced.
ResizeSampled(i) ==
    /\ kernel = "ResizeBillinear"
    /\ pc[i] = "done" /\ UnitInImage(i)

\* C14: ResizeBillinear sample bounds.  For every source size with
\* src_cols >= 1 and src_rows >= 1, every scale factor and every
\* destination pixel (dx, dy) inside the destination, the four sampled
\* source coordinates (x, y), (x_, y), (x, y_), (x_, y_) satisfy
\* 0 <= x, x_ <= src_cols - 1 and 0 <= y, y_ <= src_rows - 1, the four loads
\* stay inside the source buffer, and whenever x or y was clamped the weight
\* u or v is 0.
C14_SampleBounds ==
    \A i \in DOMAIN pc :
        ResizeSampled(i) =>
            LET h == ResizeAxis(i[1], cfg.ifx, cfg.src_cols)
                w == ResizeAxis(i[2], cfg.ify, cfg.src_rows)
            IN  /\ 0 <= h.x /\ h.x <= cfg.src_cols - 1
                /\ 0 <= h.x_ /\ h.x_ <= cfg.src_cols - 1
                /\ 0 <= w.x /\ w.x <= cfg.src_rows - 1
                /\ 0 <= w.x_ /\ w.x_ <= cfg.src_rows - 1
                /\ h.clamped => h.u = 0
                /\ w.clamped => w.u = 0
                /\ \A a \in oob : a[1] # "srcptr"

\* A finished resize in which one destination pixel had x clamped from
\* below, another had x clamped from above, and a third, unclamped, took
\* its neighbour x_ from the edge guard of INC.
C14_Witness ==
    /\ kernel = "ResizeBillinear" /\ AllDone
    /\ \E i \in DOMAIN pc :
          ResizeSampled(i) /\ ResizeFloor(i[1], cfg.ifx) < 0
    /\ \E i \in DOMAIN pc :
          ResizeSampled(i) /\ ResizeFloor(i[1], cfg.ifx) >= cfg.src_cols
    /\ \E i \in DOMAIN pc :
          /\ ResizeSampled(i)
          /\ ~ResizeAxis(i[2], cfg.ify, cfg.src_rows).clamped
          /\ ResizeAxis(i[2], cfg.ify, cfg.src_rows).x_
                 = ResizeAxis(i[2], cfg.ify, cfg.src_rows).x
          /\ ResizeAxis(i[2], cfg.ify, cfg.src_rows).u > 0

====
